---------------------------- MODULE Spec2Model ----------------------------
(***************************************************************************)
(* s3sync: a model of src/src/main.rs.                                     *)
(*                                                                         *)
(* The program builds a Manager (a list of agents), derives one debounced  *)
(* watch per distinct watch root (Manager::watchers, PathSettings + ),     *)
(* and then drains one mpsc channel: every batch, every event, every       *)
(* agent (Manager::process_event, Agent::process_file, Agent::object_key,  *)
(* Agent::upload_file, Agent::delete_source).                              *)
(*                                                                         *)
(* Text is a sequence of characters; a path is a sequence of components,   *)
(* each component a sequence of characters (all paths are absolute, the    *)
(* root component is left out).  Option<T> is a set: {} is None and {v}    *)
(* is Some(v).  Result<T, E> is a record with the field ok.                *)
(***************************************************************************)
EXTENDS Integers, Sequences, FiniteSets, TLC

(***************************************************************************)
(* Bounds of the model.                                                    *)
(***************************************************************************)
MaxAgents == 2
MaxBatchLen == 2
MaxSends == 2
MaxWindow == 7
MaxRegistryAgents == 3

(***************************************************************************)
(* Program constants.                                                      *)
(***************************************************************************)
DEFAULT_EVENT_WINDOW_SECONDS == 5
WINDOW_SECONDS_MIN == 1
WINDOW_SECONDS_MAX == 3600

VARIABLES
    agents,     \* Manager.agents: the agent list, fixed after construction
    watchers,   \* the Vec<AgentWatcher> main got from Manager::watchers
    fs,         \* the local filesystem: path -> "file" | "dir" | "missing"
    chan,       \* the mpsc channel: items sent and not yet received
    sent,       \* number of items the watches have sent so far
    pc,         \* position of main
    events,     \* the events of the current batch not yet dispatched
    event,      \* the event process_event was last called with
    passed,     \* whether that event passed the filter of process_event
    agentIdx,   \* index of the agent the loop of process_event is at
    trace,      \* one entry per Agent::process_file call for that event
    ret,        \* what process_event returned for that event
    operands,   \* inputs of the settings merge (merge specification)
    merged,     \* results of the settings merge (merge specification)
    cli         \* the parsed command line (ux::Cli) the Manager is built from

vars == <<agents, watchers, fs, chan, sent, pc, events, event, passed,
          agentIdx, trace, ret, operands, merged, cli>>

(***************************************************************************)
(* Option and Result.                                                      *)
(***************************************************************************)
None == {}
Some(v) == {v}
UnwrapOr(o, d) == IF o = {} THEN d ELSE CHOOSE v \in o : TRUE
Ok(v) == [ok |-> TRUE, val |-> v]
Err(e) == [ok |-> FALSE, err |-> e]

Min(a, b) == IF a <= b THEN a ELSE b

(***************************************************************************)
(* PathSettings: recursive(), recursive_mode(), window(), Add and Default. *)
(***************************************************************************)
Recursive(s) == UnwrapOr(s.recursive, FALSE)

RecursiveMode(s) == IF Recursive(s) THEN "Recursive" ELSE "NonRecursive"

Window(s) == UnwrapOr(s.window, DEFAULT_EVENT_WINDOW_SECONDS)

\* a slip: the window of the left operand wins
AddLeftWindow(self, rhs) ==
    LET recursive == ~ (RecursiveMode(self) = "NonRecursive"
                        /\ RecursiveMode(rhs) = "NonRecursive")
    IN  [recursive |-> Some(recursive), window |-> Some(Window(self))]

\* a slip: recursive only if both operands are
AddBothRecursive(self, rhs) ==
    LET window == Min(Window(self), Window(rhs))
        recursive == RecursiveMode(self) = "Recursive"
                     /\ RecursiveMode(rhs) = "Recursive"
    IN  [recursive |-> Some(recursive), window |-> Some(window)]

Add(self, rhs) ==
    LET window == Min(Window(self), Window(rhs))
        recursive == ~ (RecursiveMode(self) = "NonRecursive"
                        /\ RecursiveMode(rhs) = "NonRecursive")
    IN  [recursive |-> Some(recursive), window |-> Some(window)]

DefaultSettings ==
    [recursive |-> Some(FALSE), window |-> Some(DEFAULT_EVENT_WINDOW_SECONDS)]


(***************************************************************************)
(* Text and paths.  to_str fails on a component that holds a byte sequence *)
(* that is not valid Unicode; NonUnicode stands for such a byte.           *)
(***************************************************************************)
NonUnicode == "xFF"
Separator == "/"

RECURSIVE Join(_)
Join(comps) ==
    IF comps = <<>> THEN <<>>
    ELSE IF Len(comps) = 1 THEN Head(comps)
    ELSE Head(comps) \o <<Separator>> \o Join(Tail(comps))

\* Path::strip_prefix: component-wise; the rest of the path, or an error
StripPrefix(path, base) ==
    IF Len(base) <= Len(path) /\ SubSeq(path, 1, Len(base)) = base
    THEN Ok(SubSeq(path, Len(base) + 1, Len(path)))
    ELSE Err("StripPrefixError")

\* Path::to_str: None unless every component is valid Unicode
ToStr(rel) ==
    IF \E i \in 1..Len(rel) : \E j \in 1..Len(rel[i]) : rel[i][j] = NonUnicode
    THEN None
    ELSE Some(Join(rel))

(***************************************************************************)
(* Regex.  The patterns of the model are `.*` and literals with optional   *)
(* ^ and $ anchors; is_match searches the whole text for the pattern.      *)
(***************************************************************************)
Regex(anchorStart, lit, anchorEnd) ==
    [kind |-> "literal", anchorStart |-> anchorStart, lit |-> lit,
     anchorEnd |-> anchorEnd]

DotStar ==
    [kind |-> "dotstar", anchorStart |-> FALSE, lit |-> <<>>,
     anchorEnd |-> FALSE]

IsMatch(re, text) ==
    IF re.kind = "dotstar" THEN TRUE
    ELSE \E i \in 0..(Len(text) - Len(re.lit)) :
            /\ SubSeq(text, i + 1, i + Len(re.lit)) = re.lit
            /\ (re.anchorStart => i = 0)
            /\ (re.anchorEnd => i + Len(re.lit) = Len(text))

(***************************************************************************)
(* Agent::object_key, after three slips it could hold.                     *)
(***************************************************************************)
\* a slip: a path that is not under the root keeps its whole text as the key
ObjectKeyAnyRoot(agent, path) ==
    LET stripped == StripPrefix(path, agent.watcher.local_path)
        rel == IF stripped.ok THEN stripped.val ELSE path
        text == ToStr(rel)
    IN  IF text = None THEN Err("Non-unicode path")
        ELSE
        LET key == UnwrapOr(text, <<>>)
            applied_pattern == UnwrapOr(agent.pattern, DotStar)
        IN  IF IsMatch(applied_pattern, key)
            THEN Ok(IF agent.key_prefix = None THEN key
                    ELSE UnwrapOr(agent.key_prefix, <<>>) \o key)
            ELSE Err("Does not match pattern")

\* a slip: the pattern is tried on the file name, not on the relative path
ObjectKeyFileName(agent, path) ==
    LET stripped == StripPrefix(path, agent.watcher.local_path)
    IN  IF ~ stripped.ok THEN Err("StripPrefixError")
        ELSE
        LET text == ToStr(stripped.val)
        IN  IF text = None THEN Err("Non-unicode path")
            ELSE
            LET key == UnwrapOr(text, <<>>)
                name == IF stripped.val = <<>> THEN <<>>
                        ELSE stripped.val[Len(stripped.val)]
                applied_pattern == UnwrapOr(agent.pattern, DotStar)
            IN  IF IsMatch(applied_pattern, name)
                THEN Ok(IF agent.key_prefix = None THEN key
                        ELSE UnwrapOr(agent.key_prefix, <<>>) \o key)
                ELSE Err("Does not match pattern")

\* a slip: the pattern is tried on the key with the prefix already added
ObjectKeyPrefixFirst(agent, path) ==
    LET stripped == StripPrefix(path, agent.watcher.local_path)
    IN  IF ~ stripped.ok THEN Err("StripPrefixError")
        ELSE
        LET text == ToStr(stripped.val)
        IN  IF text = None THEN Err("Non-unicode path")
            ELSE
            LET key == IF agent.key_prefix = None THEN UnwrapOr(text, <<>>)
                       ELSE UnwrapOr(agent.key_prefix, <<>>) \o UnwrapOr(text, <<>>)
                applied_pattern == UnwrapOr(agent.pattern, DotStar)
            IN  IF IsMatch(applied_pattern, key)
                THEN Ok(key)
                ELSE Err("Does not match pattern")

\* a slip: an agent that is not recursive takes only the entries of its root
ObjectKeyOwnDepth(agent, path) ==
    LET stripped == StripPrefix(path, agent.watcher.local_path)
    IN  IF ~ stripped.ok THEN Err("StripPrefixError")
        ELSE IF ~ Recursive(agent.watcher.settings) /\ Len(stripped.val) > 1
        THEN Err("Below the root")
        ELSE
        LET text == ToStr(stripped.val)
        IN  IF text = None THEN Err("Non-unicode path")
            ELSE
            LET key == UnwrapOr(text, <<>>)
                applied_pattern == UnwrapOr(agent.pattern, DotStar)
            IN  IF IsMatch(applied_pattern, key)
                THEN Ok(IF agent.key_prefix = None THEN key
                        ELSE UnwrapOr(agent.key_prefix, <<>>) \o key)
                ELSE Err("Does not match pattern")

(***************************************************************************)
(* Agent::object_key.                                                      *)
(***************************************************************************)
ObjectKey(agent, path) ==
    LET stripped == StripPrefix(path, agent.watcher.local_path)
    IN  IF ~ stripped.ok THEN Err("StripPrefixError")
        ELSE
        LET text == ToStr(stripped.val)
        IN  IF text = None THEN Err("Non-unicode path")
            ELSE
            LET key == UnwrapOr(text, <<>>)
                applied_pattern == UnwrapOr(agent.pattern, DotStar)
            IN  IF IsMatch(applied_pattern, key)
                THEN Ok(IF agent.key_prefix = None THEN key
                        ELSE UnwrapOr(agent.key_prefix, <<>>) \o key)
                ELSE Err("Does not match pattern")

(***************************************************************************)
(* Manager::watchers.  path_settings is the HashMap from watch root to     *)
(* settings after the loop over the agents; the Vec built from it holds    *)
(* one AgentWatcher per key, in the map's iteration order, which is any.   *)
(***************************************************************************)
EmptyMap == [r \in {} |-> DefaultSettings]

Insert(map, key, value) ==
    [r \in (DOMAIN map) \cup {key} |-> IF r = key THEN value ELSE map[r]]

\* a slip: the settings of the last agent of a root replace the earlier ones
RECURSIVE PathSettingsLastWins(_, _)
PathSettingsLastWins(ags, n) ==
    IF n = 0 THEN EmptyMap
    ELSE Insert(PathSettingsLastWins(ags, n - 1), ags[n].watcher.local_path,
                ags[n].watcher.settings)

RECURSIVE PathSettingsAfter(_, _)
PathSettingsAfter(ags, n) ==
    IF n = 0 THEN EmptyMap
    ELSE
    LET path_settings == PathSettingsAfter(ags, n - 1)
        agent == ags[n]
    IN  IF agent.watcher.local_path \in DOMAIN path_settings
        THEN Insert(path_settings, agent.watcher.local_path,
                    Add(agent.watcher.settings,
                        path_settings[agent.watcher.local_path]))
        ELSE Insert(path_settings, agent.watcher.local_path,
                    agent.watcher.settings)

PathSettingsMap(ags) == PathSettingsAfter(ags, Len(ags))

\* every Vec the collect() of line 127-133 can give for the map
WatcherVecs(map) ==
    LET n == Cardinality(DOMAIN map)
    IN  { [i \in 1..n |-> [local_path |-> order[i], settings |-> map[order[i]]]] :
            order \in { o \in [1..n -> DOMAIN map] :
                            \A i, j \in 1..n : o[i] = o[j] => i = j } }

(***************************************************************************)
(* The inputs of the model: components, paths, key prefixes, patterns,     *)
(* settings and agents.                                                    *)
(***************************************************************************)
CompD == <<"d">>
CompS == <<"s">>
CompF == <<"f", ".", "c">>
CompG == <<"g", ".", "t">>
CompBad == <<NonUnicode, ".", "c">>

RootD == <<CompD>>                   \* /d
RootDS == <<CompD, CompS>>           \* /d/s
PathF == <<CompD, CompF>>            \* /d/f.c, a file
PathSub == <<CompD, CompS>>          \* /d/s, a directory
PathSubG == <<CompD, CompS, CompG>>  \* /d/s/g.t, a file
PathBad == <<CompD, CompBad>>        \* /d/<xFF>.c, a file

Roots == {RootD, RootDS}
FilePaths == {PathF, PathSubG, PathBad}
Paths == FilePaths \cup {PathSub}

PrefixU == <<"u", "/">>              \* --prefix u/
PatternDotC == Regex(FALSE, <<".", "c">>, TRUE)   \* \.c$
PatternStartU == Regex(TRUE, <<"u">>, FALSE)      \* ^u
PatternStartG == Regex(TRUE, <<"g">>, FALSE)      \* ^g

OptBool == {None, Some(TRUE), Some(FALSE)}
WindowValues == {WINDOW_SECONDS_MIN, DEFAULT_EVENT_WINDOW_SECONDS, MaxWindow}
OptWindow == {None} \cup {Some(w) : w \in WindowValues}
AllSettings == [recursive : OptBool, window : OptWindow]

\* struct Agent (profile_name and region_name only select the endpoint)
Agent(local_path, settings, pattern, bucket_name, key_prefix, delete) ==
    [watcher |-> [local_path |-> local_path, settings |-> settings],
     pattern |-> pattern, bucket_name |-> bucket_name,
     key_prefix |-> key_prefix, delete |-> delete]

\* every agent of one field each way: the inputs of the single-agent runs
AllAgents ==
    { Agent(root, [recursive |-> rec, window |-> None], pat, bucket, prefix, del) :
        root \in Roots, rec \in {None, Some(TRUE)},
        pat \in {None, Some(PatternDotC), Some(PatternStartU), Some(PatternStartG)},
        bucket \in {None, Some("b")}, prefix \in {None, Some(PrefixU)},
        del \in OptBool }

NoWindow(rec) == [recursive |-> rec, window |-> None]

\* the agents the lists of several agents are made of
AgentCatalog ==
    { Agent(RootD, NoWindow(None), None, Some("b"), None, Some(TRUE)),
      Agent(RootD, NoWindow(Some(TRUE)), Some(PatternDotC), Some("b"),
            Some(PrefixU), None),
      Agent(RootDS, NoWindow(Some(FALSE)), None, Some("b"), None, Some(FALSE)),
      Agent(RootD, NoWindow(None), None, None, None, Some(TRUE)) }

AgentLists == UNION { [1..n -> AgentCatalog] : n \in 1..MaxAgents }

\* DebouncedEvent: every path as a settled event, one also as in progress
Events ==
    [path : Paths, kind : {"Any"}] \cup [path : {PathF}, kind : {"AnyContinuous"}]

(***************************************************************************)
(* The filesystem calls the program makes.                                 *)
(***************************************************************************)
Exists(fsys, path) == fsys[path] # "missing"
IsFile(fsys, path) == fsys[path] = "file"

\* a slip: the kind of the event is not looked at
DispatchFilterAnyKind(fsys, ev) ==
    Exists(fsys, ev.path) /\ IsFile(fsys, ev.path)

\* the condition of Manager::process_event
DispatchFilter(fsys, ev) ==
    ev.kind = "Any" /\ Exists(fsys, ev.path) /\ IsFile(fsys, ev.path)

\* a slip: an unset delete flag counts as set
DeleteRequestedByDefault(agent) == UnwrapOr(agent.delete, TRUE)

\* the condition of the delete in Agent::process_file
DeleteRequested(agent) == UnwrapOr(agent.delete, FALSE)

\* a slip: the file is opened only when the request is sent
CanOpenLazily(fsys, path) == TRUE

\* ByteStream::from_path of Agent::upload_file: an error unless the file is
\* there
CanOpen(fsys, path) == Exists(fsys, path)

\* a slip: a bucket name that is not set is taken as the empty name
BucketNameOrEmpty(agent) == Ok(UnwrapOr(agent.bucket_name, ""))

\* the bucket of Agent::upload_file: an error unless the name is set
BucketName(agent) ==
    IF agent.bucket_name = None
    THEN Err("Bucket name is required")
    ELSE Ok(UnwrapOr(agent.bucket_name, ""))

\* a slip: process_file keeps the pattern it applied in the agent
ProcessFileSelfKeepsPattern(ags, k) ==
    [ags EXCEPT ![k].pattern = Some(UnwrapOr(@, DotStar))]

\* the agent list after a call of process_file on agent k: process_file,
\* object_key and upload_file take &self and write no field
ProcessFileSelf(ags, k) == ags

(***************************************************************************)
(* What a watch reports: a non-recursive watch the entries of its root, a  *)
(* recursive one everything below it.                                      *)
(***************************************************************************)
InScope(watcher, path) ==
    LET rel == StripPrefix(path, watcher.local_path)
    IN  /\ rel.ok
        /\ Len(rel.val) >= 1
        /\ (RecursiveMode(watcher.settings) = "Recursive" \/ Len(rel.val) = 1)

\* a batch of the debouncer holds one event for a path
Batches(watcher) ==
    UNION { { b \in [1..n -> { ev \in Events : InScope(watcher, ev.path) }] :
                \A i, j \in 1..n : b[i].path = b[j].path => i = j } :
            n \in 1..MaxBatchLen }

(***************************************************************************)
(* The state after construction: the Manager holds its agents, nothing has *)
(* been watched or sent, every file of the model is on disk.               *)
(***************************************************************************)
NoEvent == [path |-> <<>>, kind |-> "none"]

\* no command line: the Manager is given as built
NoCli == [config |-> None]

InitialFs == [p \in Paths |-> IF p \in FilePaths THEN "file" ELSE "dir"]

InitRest ==
    /\ watchers = <<>>
    /\ fs = InitialFs
    /\ chan = <<>>
    /\ sent = 0
    /\ pc = "init"
    /\ events = <<>>
    /\ event = NoEvent
    /\ passed = FALSE
    /\ agentIdx = 0
    /\ trace = <<>>
    /\ ret = "none"
    /\ cli = NoCli

Init ==
    /\ agents \in AgentLists
    /\ InitRest
    /\ operands = <<>>
    /\ merged = <<>>

(***************************************************************************)
(* main, lines 29-33: the watchers of the manager, each started on the     *)
(* shared channel.                                                         *)
(***************************************************************************)
Startup ==
    /\ pc = "init"
    /\ watchers' \in WatcherVecs(PathSettingsMap(agents))
    /\ pc' = "recv"
    /\ UNCHANGED <<agents, fs, chan, sent, events, event, passed, agentIdx,
                   trace, ret, operands, merged, cli>>

(***************************************************************************)
(* A watch (AgentWatcher::watch) sends one item: a batch of debounced      *)
(* events, or the errors of the notify backend.  The watches send while    *)
(* main waits on the empty channel: the dispatch of an item reads that     *)
(* item alone, whatever has queued up behind it.                           *)
(***************************************************************************)
WatchSend(w) ==
    /\ pc = "recv"
    /\ chan = <<>>
    /\ sent < MaxSends
    /\ \E res \in { Ok(b) : b \in Batches(watchers[w]) } \cup { Err("notify") } :
          chan' = Append(chan, [watch |-> w, seq |-> sent + 1, res |-> res])
    /\ sent' = sent + 1
    /\ UNCHANGED <<agents, watchers, fs, pc, events, event, passed, agentIdx,
                   trace, ret, operands, merged, cli>>

(***************************************************************************)
(* Another process removes a file of the watched tree.                     *)
(***************************************************************************)
ExternalRemove(p) ==
    /\ pc \notin {"init", "failed"}
    /\ fs[p] = "file"
    /\ fs' = [fs EXCEPT ![p] = "missing"]
    /\ UNCHANGED <<agents, watchers, chan, sent, pc, events, event, passed,
                   agentIdx, trace, ret, operands, merged, cli>>

\* a slip: the item sent last is taken first
ReceiveNewest ==
    /\ pc = "recv"
    /\ chan # <<>>
    /\ chan' = SubSeq(chan, 1, Len(chan) - 1)
    /\ IF chan[Len(chan)].res.ok /\ chan[Len(chan)].res.val # <<>>
       THEN events' = chan[Len(chan)].res.val /\ pc' = "event"
       ELSE UNCHANGED <<events, pc>>
    /\ UNCHANGED <<agents, watchers, fs, sent, event, passed, agentIdx,
                   trace, ret, operands, merged, cli>>

\* a slip: an error item is returned from main like an error of an event
ReceiveOrFail ==
    /\ pc = "recv"
    /\ chan # <<>>
    /\ chan' = Tail(chan)
    /\ IF ~ Head(chan).res.ok
       THEN events' = events /\ pc' = "failed"
       ELSE IF Head(chan).res.val # <<>>
       THEN events' = Head(chan).res.val /\ pc' = "event"
       ELSE UNCHANGED <<events, pc>>
    /\ UNCHANGED <<agents, watchers, fs, sent, event, passed, agentIdx,
                   trace, ret, operands, merged, cli>>

(***************************************************************************)
(* main, line 35: rx.into_iter().flatten() takes the next item; flatten    *)
(* passes the batch of an Ok on and drops an Err.                          *)
(***************************************************************************)
Receive ==
    /\ pc = "recv"
    /\ chan # <<>>
    /\ chan' = Tail(chan)
    /\ IF Head(chan).res.ok /\ Head(chan).res.val # <<>>
       THEN events' = Head(chan).res.val /\ pc' = "event"
       ELSE UNCHANGED <<events, pc>>
    /\ UNCHANGED <<agents, watchers, fs, sent, event, passed, agentIdx,
                   trace, ret, operands, merged, cli>>

\* where main goes on after process_event returned Ok for the last event taken
AfterEvent(rest) == IF rest = <<>> THEN "recv" ELSE "event"

(***************************************************************************)
(* main, lines 36-37, and Manager::process_event up to its loop: the next  *)
(* event of the batch is tested; if it fails the test process_event        *)
(* returns Ok at once.                                                     *)
(***************************************************************************)
ProcessEvent ==
    /\ pc = "event"
    /\ event' = Head(events)
    /\ events' = Tail(events)
    /\ trace' = <<>>
    /\ IF DispatchFilter(fs, Head(events))
       THEN /\ passed' = TRUE
            /\ agentIdx' = 1
            /\ ret' = "none"
            /\ pc' = "agent"
       ELSE /\ passed' = FALSE
            /\ agentIdx' = 0
            /\ ret' = "Ok"
            /\ pc' = AfterEvent(Tail(events))
    /\ UNCHANGED <<agents, watchers, fs, chan, sent, operands, merged, cli>>

\* one entry of trace: what one call of Agent::process_file did
Entry(k, key, put, upload, delete, result) ==
    [agent |-> k, key |-> key, put |-> put, upload |-> upload,
     delete |-> delete, result |-> result]

\* process_file returned Ok: the loop of process_event goes to the next
\* agent, or process_event returns Ok
AgentReturnsOk ==
    IF agentIdx < Len(agents)
    THEN agentIdx' = agentIdx + 1 /\ pc' = "agent" /\ ret' = ret
    ELSE agentIdx' = agentIdx /\ pc' = AfterEvent(events) /\ ret' = "Ok"

\* process_file returned Err: the ? of line 142 returns it from
\* process_event and the ? of line 37 returns it from main
AgentReturnsErr ==
    agentIdx' = agentIdx /\ pc' = "failed" /\ ret' = "Err"

\* a slip: the request is started and not waited for
SpawnPut == AgentReturnsOk

\* upload_file, line 336: send().await, process_file waits for the answer
AwaitPut == agentIdx' = agentIdx /\ ret' = ret /\ pc' = "put"

(***************************************************************************)
(* Agent::process_file up to the put-object request of upload_file.        *)
(***************************************************************************)
ProcessFile ==
    /\ pc = "agent"
    /\ LET agent == agents[agentIdx]
           key == ObjectKey(agent, event.path)
       IN  IF ~ key.ok
           THEN /\ trace' = Append(trace,
                       Entry(agentIdx, None, 0, "none", "none", "Ok"))
                /\ AgentReturnsOk
           ELSE IF ~ BucketName(agent).ok
           THEN /\ trace' = Append(trace,
                       Entry(agentIdx, Some(key.val), 0, "no bucket", "none", "Err"))
                /\ AgentReturnsErr
           ELSE IF ~ CanOpen(fs, event.path)
           THEN /\ trace' = Append(trace,
                       Entry(agentIdx, Some(key.val), 0, "unavailable", "none", "Err"))
                /\ AgentReturnsErr
           ELSE /\ trace' = Append(trace,
                       Entry(agentIdx, Some(key.val), 1, "sent", "none", "none"))
                /\ AwaitPut
    /\ agents' = ProcessFileSelf(agents, agentIdx)
    /\ UNCHANGED <<watchers, fs, chan, sent, events, event, passed,
                   operands, merged, cli>>

(***************************************************************************)
(* The put-object request returns (upload_file, line 336), and             *)
(* process_file goes on to delete_source.  accepted is the answer of the   *)
(* object store, ioOk whether the filesystem lets the file be removed.     *)
(***************************************************************************)
SetLast(tr, upload, delete, result) ==
    [tr EXCEPT ![Len(tr)] =
        [@ EXCEPT !.upload = upload, !.delete = delete, !.result = result]]

\* a slip: a rejected request is sent once more
PutObjectRetry(accepted, ioOk) ==
    /\ pc = "put"
    /\ LET agent == agents[agentIdx]
       IN  IF ~ accepted /\ trace[Len(trace)].put < 2
           THEN /\ trace' = [trace EXCEPT ![Len(trace)].put = @ + 1]
                /\ fs' = fs
                /\ UNCHANGED <<agentIdx, ret, pc>>
           ELSE IF ~ accepted
           THEN /\ trace' = SetLast(trace, "rejected", "none", "Err")
                /\ fs' = fs
                /\ AgentReturnsErr
           ELSE IF ~ DeleteRequested(agent)
           THEN /\ trace' = SetLast(trace, "ok", "none", "Ok")
                /\ fs' = fs
                /\ AgentReturnsOk
           ELSE IF IsFile(fs, event.path) /\ ioOk
           THEN /\ trace' = SetLast(trace, "ok", "ok", "Ok")
                /\ fs' = [fs EXCEPT ![event.path] = "missing"]
                /\ AgentReturnsOk
           ELSE /\ trace' = SetLast(trace, "ok", "failed", "Err")
                /\ fs' = fs
                /\ AgentReturnsErr
    /\ UNCHANGED <<agents, watchers, chan, sent, events, event, passed,
                   operands, merged, cli>>

PutObjectReturn(accepted, ioOk) ==
    /\ pc = "put"
    /\ LET agent == agents[agentIdx]
       IN  IF ~ accepted
           THEN /\ trace' = SetLast(trace, "rejected", "none", "Err")
                /\ fs' = fs
                /\ AgentReturnsErr
           ELSE IF ~ DeleteRequested(agent)
           THEN /\ trace' = SetLast(trace, "ok", "none", "Ok")
                /\ fs' = fs
                /\ AgentReturnsOk
           ELSE IF IsFile(fs, event.path) /\ ioOk
           THEN /\ trace' = SetLast(trace, "ok", "ok", "Ok")
                /\ fs' = [fs EXCEPT ![event.path] = "missing"]
                /\ AgentReturnsOk
           ELSE /\ trace' = SetLast(trace, "ok", "failed", "Err")
                /\ fs' = fs
                /\ AgentReturnsErr
    /\ UNCHANGED <<agents, watchers, chan, sent, events, event, passed,
                   operands, merged, cli>>

Next ==
    \/ Startup
    \/ \E w \in 1..Len(watchers) : WatchSend(w)
    \/ \E p \in FilePaths : ExternalRemove(p)
    \/ Receive
    \/ ProcessEvent
    \/ ProcessFile
    \/ \E accepted \in BOOLEAN, ioOk \in BOOLEAN : PutObjectReturn(accepted, ioOk)

Spec == Init /\ [][Next]_vars

(***************************************************************************)
(* The same program with one agent, every field of it each way.            *)
(***************************************************************************)
InitAgent ==
    /\ agents \in { <<a>> : a \in AllAgents }
    /\ InitRest
    /\ operands = <<>>
    /\ merged = <<>>

SpecAgent == InitAgent /\ [][Next]_vars


(***************************************************************************)
(* Manager::watchers alone, over agent lists of every settings value.      *)
(***************************************************************************)
RegistryAgents ==
    { Agent(root, settings, None, Some("b"), None, None) :
        root \in Roots, settings \in AllSettings }

InitRegistry ==
    /\ agents \in UNION { [1..n -> RegistryAgents] : n \in 1..MaxRegistryAgents }
    /\ InitRest
    /\ operands = <<>>
    /\ merged = <<>>

SpecRegistry == InitRegistry /\ [][Startup]_vars

(***************************************************************************)
(* The settings merge alone: PathSettings + applied to three operands and  *)
(* to the default value.                                                   *)
(***************************************************************************)
InitMerge ==
    /\ operands \in AllSettings \X AllSettings \X AllSettings
    /\ merged = <<>>
    /\ agents = <<>>
    /\ InitRest

Combine ==
    /\ merged = <<>>
    /\ LET a == operands[1]
           b == operands[2]
           c == operands[3]
       IN  merged' = [ab |-> Add(a, b), ba |-> Add(b, a),
                      ab_c |-> Add(Add(a, b), c), a_bc |-> Add(a, Add(b, c)),
                      a_default |-> Add(a, DefaultSettings),
                      default_a |-> Add(DefaultSettings, a)]
    /\ UNCHANGED <<agents, watchers, fs, chan, sent, pc, events, event,
                   passed, agentIdx, trace, ret, operands, cli>>

SpecMerge == InitMerge /\ [][Combine]_vars

(***************************************************************************)
(* The same program with two watches that send at any time, also while     *)
(* main dispatches: the items queue up in the channel.  The agents are two *)
(* with a root each; the batches hold settled events of files.             *)
(***************************************************************************)
ChannelAgents ==
    << Agent(RootD, NoWindow(None), Some(PatternDotC), Some("b"), None, None),
       Agent(RootDS, NoWindow(Some(FALSE)), None, Some("b"), None, Some(FALSE)) >>

InitChannel ==
    /\ agents = ChannelAgents
    /\ InitRest
    /\ operands = <<>>
    /\ merged = <<>>

QueueBatches(watcher) ==
    { b \in Batches(watcher) :
        \A i \in DOMAIN b : b[i].kind = "Any" /\ b[i].path \in FilePaths }

\* AgentWatcher::watch: the debouncer thread of a watch sends on its clone of
\* tx whenever its window has passed, whatever main is doing
WatchQueue(w) ==
    /\ pc \in {"recv", "event", "agent", "put"}
    /\ sent < MaxSends
    /\ \E res \in { Ok(b) : b \in QueueBatches(watchers[w]) } \cup { Err("notify") } :
          chan' = Append(chan, [watch |-> w, seq |-> sent + 1, res |-> res])
    /\ sent' = sent + 1
    /\ UNCHANGED <<agents, watchers, fs, pc, events, event, passed, agentIdx,
                   trace, ret, operands, merged, cli>>

NextChannel ==
    \/ Startup
    \/ \E w \in 1..Len(watchers) : WatchQueue(w)
    \/ \E p \in FilePaths : ExternalRemove(p)
    \/ Receive
    \/ ProcessEvent
    \/ ProcessFile
    \/ \E accepted \in BOOLEAN, ioOk \in BOOLEAN : PutObjectReturn(accepted, ioOk)

SpecChannel == InitChannel /\ [][NextChannel]_vars

(***************************************************************************)
(* The construction of the Manager from the command line, then the start   *)
(* of the watches.  A command line names a config file or gives the one    *)
(* agent by flags; --window is what the user typed for it.                 *)
(***************************************************************************)
\* window_seconds_range: the value parser of --window
WindowSecondsRange(n) ==
    IF n \in WINDOW_SECONDS_MIN..WINDOW_SECONDS_MAX
    THEN Ok(n)
    ELSE Err("out of range")

TypedWindows ==
    {0, WINDOW_SECONDS_MIN, DEFAULT_EVENT_WINDOW_SECONDS, MaxWindow,
     WINDOW_SECONDS_MAX, WINDOW_SECONDS_MAX + 1}

\* struct Cli
Cli(path, recursive, window, config) ==
    [path |-> path, bucket |-> Some("b"), prefix |-> None, pattern |-> None,
     delete |-> None, recursive |-> recursive, window |-> window,
     config |-> config]

\* the agents a config file can describe: the window is any number or absent
ConfigAgents ==
    { Agent(root, [recursive |-> rec, window |-> win], None, Some("b"), None, None) :
        root \in Roots, rec \in {None, Some(TRUE)},
        win \in {None} \cup { Some(w) : w \in TypedWindows } }

\* the config file: not readable, or YAML that describes a Manager
ConfigFiles ==
    { Err("No such file") } \cup
    { Ok([agents |-> ags]) :
        ags \in UNION { [1..n -> ConfigAgents] : n \in 1..MaxAgents } }

CommandLines ==
    { Cli(path, rec, win, None) :
        path \in Roots, rec \in OptBool, win \in TypedWindows }
    \cup { Cli(RootD, None, DEFAULT_EVENT_WINDOW_SECONDS, Some(file)) :
             file \in ConfigFiles }

InitConfig ==
    /\ cli \in CommandLines
    /\ agents = <<>>
    /\ watchers = <<>>
    /\ fs = InitialFs
    /\ chan = <<>>
    /\ sent = 0
    /\ pc = "cli"
    /\ events = <<>>
    /\ event = NoEvent
    /\ passed = FALSE
    /\ agentIdx = 0
    /\ trace = <<>>
    /\ ret = "none"
    /\ operands = <<>>
    /\ merged = <<>>

\* main, line 27: Cli::parse() applies the value parser of --window and
\* ends the process on its error; Manager::try_from reads the config file
\* if one is named and else makes the one agent of the flags
TryFromCli ==
    /\ pc = "cli"
    /\ IF ~ WindowSecondsRange(cli.window).ok
       THEN agents' = agents /\ pc' = "rejected"
       ELSE IF cli.config # None
       THEN LET contents == UnwrapOr(cli.config, Err("none"))
            IN  IF contents.ok
                THEN agents' = contents.val.agents /\ pc' = "init"
                ELSE agents' = agents /\ pc' = "rejected"
       ELSE /\ agents' =
                 << Agent(cli.path,
                          [recursive |-> cli.recursive,
                           window |-> Some(WindowSecondsRange(cli.window).val)],
                          cli.pattern, cli.bucket, cli.prefix, cli.delete) >>
            /\ pc' = "init"
    /\ UNCHANGED <<watchers, fs, chan, sent, events, event, passed, agentIdx,
                   trace, ret, operands, merged, cli>>

NextConfig == TryFromCli \/ Startup

SpecConfig == InitConfig /\ [][NextConfig]_vars


(***************************************************************************)
(* Properties.                                                             *)
(***************************************************************************)
Returned == ret # "none"
EntryAgent(e) == agents[e.agent]
UploadAttempted(e) == e.upload # "none"

\* the failures C1 and C2 name: the upload failed (file not opened, request
\* rejected) or the delete failed
PipelineFailed(e) ==
    e.upload \in {"unavailable", "rejected"} \/ e.delete = "failed"

\* C1: fan-out isolation.  Once process_event has returned for an event
\* that passed the dispatch filter, the pipeline of every agent of the list
\* has been invoked for it, also when an earlier agent's pipeline failed
\* in its upload or its delete (every agent here has a bucket).
C1_FanOutIsolation ==
    (Returned /\ passed /\ \A k \in DOMAIN agents : agents[k].bucket_name # None)
        => Len(trace) = Len(agents)

\* C2: the dispatch loop survives per-event errors.  After a pipeline has
\* failed for an event (file not opened, upload rejected, delete failed)
\* main has not returned: it still takes events and batches.
C2_LoopSurvivesErrors ==
    (\E i \in DOMAIN trace : PipelineFailed(trace[i])) => pc # "failed"

\* C3: delete-after-upload fires only after a successful upload.  An agent
\* calls delete_source, and so removes the file, only if its own upload in
\* the same call succeeded and its delete flag is Some(true); after a
\* failed upload, or with the flag false or unset, it deletes nothing.
C3_DeleteOnlyAfterUpload ==
    \A i \in DOMAIN trace :
        LET e == trace[i]
        IN  /\ e.delete # "none" =>
                (e.upload = "ok" /\ e.put = 1 /\ EntryAgent(e).delete = Some(TRUE))
            /\ (e.upload # "ok" \/ EntryAgent(e).delete \in {None, Some(FALSE)}) =>
                e.delete = "none"
            /\ e.delete = "ok" => fs[event.path] = "missing"

\* C3 witness: an agent with the flag set has uploaded and removed the file
C3_Witness ==
    \E i \in DOMAIN trace :
        /\ trace[i].upload = "ok"
        /\ trace[i].delete = "ok"
        /\ fs[event.path] = "missing"

(***************************************************************************)
(* The watcher registry and the settings merge.                            *)
(***************************************************************************)
Started == pc # "init"
AgentsOf(root) == { k \in DOMAIN agents : agents[k].watcher.local_path = root }
AgentRoots == { agents[k].watcher.local_path : k \in DOMAIN agents }
SetMin(S) == CHOOSE m \in S : \A x \in S : m <= x

\* C4: Manager::watchers gives exactly one watcher per distinct watch root
\* of the agent list and none for any other path; its window() is the
\* least window() of the agents of that root and its recursive() holds iff
\* recursive() holds for one of them (unset: window 5, not recursive),
\* whatever the order of the agents.
C4_OneWatchPerRoot ==
    Started =>
        /\ \A root \in AgentRoots :
              Cardinality({ j \in DOMAIN watchers :
                                watchers[j].local_path = root }) = 1
        /\ \A j \in DOMAIN watchers :
              LET root == watchers[j].local_path
              IN  /\ root \in AgentRoots
                  /\ Window(watchers[j].settings) =
                        SetMin({ Window(agents[k].watcher.settings) :
                                    k \in AgentsOf(root) })
                  /\ Recursive(watchers[j].settings) =
                        (\E k \in AgentsOf(root) :
                            agents[k].watcher.settings.recursive = Some(TRUE))

\* C4 witness: two agents share a root, the later one has the larger window
\* and is not recursive, the earlier one is; one has no window set
C4_Witness ==
    /\ Started
    /\ \E k1, k2 \in DOMAIN agents :
          /\ k1 < k2
          /\ agents[k1].watcher.local_path = agents[k2].watcher.local_path
          /\ agents[k1].watcher.settings.window = Some(WINDOW_SECONDS_MIN)
          /\ agents[k1].watcher.settings.recursive = Some(TRUE)
          /\ agents[k2].watcher.settings.window = None
          /\ agents[k2].watcher.settings.recursive = None
          /\ \E j \in DOMAIN watchers :
                /\ watchers[j].local_path = agents[k1].watcher.local_path
                /\ watchers[j].settings.window = Some(WINDOW_SECONDS_MIN)
                /\ watchers[j].settings.recursive = Some(TRUE)

\* equality of settings on the effective values window() and recursive()
Effective(s) == <<Window(s), Recursive(s)>>
Combined == merged # <<>>

\* C5: the settings merge is commutative and associative on the effective
\* values: a + b = b + a and (a + b) + c = a + (b + c), also when window
\* or recursive is None in an operand.
C5_MergeCommutativeAssociative ==
    Combined =>
        /\ Effective(merged.ab) = Effective(merged.ba)
        /\ Effective(merged.ab_c) = Effective(merged.a_bc)

\* C5 witness: operands that differ in window and in recursion, one of them
\* with both fields unset
C5_Witness ==
    /\ Combined
    /\ operands[1] = [recursive |-> None, window |-> None]
    /\ operands[2] = [recursive |-> Some(TRUE), window |-> Some(MaxWindow)]
    /\ operands[3] = [recursive |-> Some(FALSE), window |-> Some(WINDOW_SECONDS_MIN)]
    /\ Effective(merged.ab) = <<DEFAULT_EVENT_WINDOW_SECONDS, TRUE>>
    /\ Effective(merged.ab_c) = <<WINDOW_SECONDS_MIN, TRUE>>

\* C6 as claimed: the default value is the identity of the merge: for every
\* a with a window in 1..3600, a + default and default + a have the
\* effective window and recursion of a.
C6_DefaultIsIdentity ==
    (Combined /\ Window(operands[1]) \in WINDOW_SECONDS_MIN..WINDOW_SECONDS_MAX) =>
        /\ Effective(merged.a_default) = Effective(operands[1])
        /\ Effective(merged.default_a) = Effective(operands[1])

\* C6 as amended: a + default and default + a have the effective recursion
\* of a and the effective window min(a.window(), 5); so the default value
\* acts as an identity exactly on the a whose window() is at most 5.
C6_DefaultCapsWindow ==
    Combined =>
        LET a == operands[1]
            capped == <<Min(Window(a), DEFAULT_EVENT_WINDOW_SECONDS), Recursive(a)>>
        IN  /\ Effective(merged.a_default) = capped
            /\ Effective(merged.default_a) = capped
            /\ (Window(a) <= DEFAULT_EVENT_WINDOW_SECONDS <=>
                    Effective(merged.a_default) = Effective(a))
            /\ (Window(a) <= DEFAULT_EVENT_WINDOW_SECONDS <=>
                    Effective(merged.default_a) = Effective(a))

\* C6 witness: a recursive a with a window above 5 merged with the default
C6_Witness ==
    /\ Combined
    /\ operands[1] = [recursive |-> Some(TRUE), window |-> Some(MaxWindow)]
    /\ Effective(merged.a_default) = <<DEFAULT_EVENT_WINDOW_SECONDS, TRUE>>
    /\ Effective(merged.default_a) = <<DEFAULT_EVENT_WINDOW_SECONDS, TRUE>>

(***************************************************************************)
(* The dispatch filter and the key of an agent.                            *)
(***************************************************************************)
\* C7: dispatch filter.  process_event goes on to the agents only for an
\* event of kind Any whose path is a regular file on disk when it is
\* looked at; for an AnyContinuous event, a missing path or a directory it
\* invokes no agent, uploads and deletes nothing and returns Ok.
C7_DispatchFilter ==
    [][ /\ (pc = "event" /\ events' = Tail(events)) =>
              LET ev == Head(events)
                  actionable == ev.kind = "Any" /\ fs[ev.path] = "file"
              IN  /\ event' = ev
                  /\ passed' = actionable
                  /\ actionable => (pc' = "agent" /\ agentIdx' = 1)
                  /\ ~ actionable =>
                        /\ trace' = <<>>
                        /\ fs' = fs
                        /\ ret' = "Ok"
                        /\ pc' \in {"recv", "event"}
        /\ pc' \in {"agent", "put"} => (passed' /\ event'.kind = "Any")
        /\ trace' # <<>> => (passed' /\ event'.kind = "Any")
      ]_vars

\* C7 witness: an AnyContinuous event for a regular file was let go with Ok
C7_Witness ==
    /\ event.kind = "AnyContinuous"
    /\ fs[event.path] = "file"
    /\ ~ passed
    /\ trace = <<>>
    /\ ret = "Ok"
    /\ pc \in {"recv", "event"}

\* the path is below the root, component by component
UnderRoot(path, root) ==
    /\ Len(root) <= Len(path)
    /\ \A i \in 1..Len(root) : path[i] = root[i]

RelativePart(path, root) == SubSeq(path, Len(root) + 1, Len(path))

ValidText(comps) ==
    \A i \in 1..Len(comps) : \A j \in 1..Len(comps[i]) : comps[i][j] # NonUnicode

RelativeText(path, root) == Join(RelativePart(path, root))

EntryRoot(e) == EntryAgent(e).watcher.local_path

Skipped(e) ==
    /\ e.key = None
    /\ e.put = 0
    /\ e.upload = "none"
    /\ e.delete = "none"
    /\ e.result = "Ok"

\* C8: a path outside the root is a silent skip.  For an event path that
\* is not under the agent's root, or whose part below the root is not valid
\* text, process_file sends no put-object request, deletes nothing and
\* returns Ok.
C8_OutsideRootSkips ==
    \A i \in DOMAIN trace :
        LET e == trace[i]
        IN  (~ UnderRoot(event.path, EntryRoot(e))
             \/ ~ ValidText(RelativePart(event.path, EntryRoot(e))))
                => (Skipped(e) /\ (i = Len(trace) => ret # "Err"))

\* C8 witness: an agent was called with a file outside its root and
\* process_event returned Ok with the file still on disk
C8_Witness ==
    /\ \E i \in DOMAIN trace :
          /\ ~ UnderRoot(event.path, EntryRoot(trace[i]))
          /\ Skipped(trace[i])
    /\ ret = "Ok"
    /\ fs[event.path] = "file"

\* what C9 says of one call of process_file for a path under the root
PatternDecides(e) ==
    LET root == EntryRoot(e)
        pattern == EntryAgent(e).pattern
    IN  IF pattern = None THEN UploadAttempted(e)
        ELSE /\ UploadAttempted(e) <=>
                    IsMatch(UnwrapOr(pattern, DotStar),
                            RelativeText(event.path, root))
             /\ ~ UploadAttempted(e) => Skipped(e)

\* C9 as claimed: pattern filtering.  For every event path under the
\* agent's root, an agent with a pattern goes on to upload iff the pattern
\* matches the path relative to the root; if not it sends no put-object
\* request, deletes nothing and returns Ok.  An agent with no pattern goes
\* on to upload for every path under its root.
C9_PatternFilters ==
    \A i \in DOMAIN trace :
        UnderRoot(event.path, EntryRoot(trace[i])) => PatternDecides(trace[i])

\* C9 as amended: the same for every event path under the agent's root
\* whose part below the root is valid text; a path whose relative part is
\* not valid text is skipped whatever the pattern, set or not.
C9_PatternFiltersText ==
    \A i \in DOMAIN trace :
        LET e == trace[i]
            root == EntryRoot(e)
        IN  UnderRoot(event.path, root) =>
                IF ValidText(RelativePart(event.path, root))
                THEN PatternDecides(e)
                ELSE Skipped(e)

\* C9 witness: the pattern matches the file name g.t but not the relative
\* path s/g.t, and the agent skipped the file
C9_Witness ==
    /\ Len(trace) = 1
    /\ EntryAgent(trace[1]).pattern = Some(PatternStartG)
    /\ EntryRoot(trace[1]) = RootD
    /\ event.path = PathSubG
    /\ Skipped(trace[1])
    /\ ret = "Ok"

\* C10: key derivation.  The key an agent derives is its key prefix (empty
\* if unset) followed at once by the path relative to the root, and a key
\* is derived exactly for the paths under the root whose relative part is
\* valid text that the pattern, tried on that relative part, matches.
C10_KeyDerivation ==
    \A i \in DOMAIN trace :
        LET e == trace[i]
            agent == EntryAgent(e)
            root == EntryRoot(e)
            text == RelativeText(event.path, root)
            matches == /\ UnderRoot(event.path, root)
                       /\ ValidText(RelativePart(event.path, root))
                       /\ IsMatch(UnwrapOr(agent.pattern, DotStar), text)
        IN  e.key = IF matches
                    THEN Some(UnwrapOr(agent.key_prefix, <<>>) \o text)
                    ELSE None

\* C10 witness: prefix u/ and the file /d/s/g.t under the root /d give the
\* key u/s/g.t, sent in a put-object request
C10_Witness ==
    \E i \in DOMAIN trace :
        /\ EntryAgent(trace[i]).key_prefix = Some(PrefixU)
        /\ EntryRoot(trace[i]) = RootD
        /\ event.path = PathSubG
        /\ trace[i].key = Some(<<"u", "/", "s", "/", "g", ".", "t">>)
        /\ trace[i].put = 1

\* the watches have been started
Watching == pc \notin {"cli", "rejected", "init"}

\* the Manager has been built from the command line
Accepted == pc \notin {"cli", "rejected"}

InWindowRange(n) == n \in WINDOW_SECONDS_MIN..WINDOW_SECONDS_MAX

\* C11: every watch is started with a window of 1 to 3600 seconds.  For
\* every command line the Manager is built from, by flags or by a config
\* file, each watcher of Manager::watchers has its window() in 1..3600, and
\* no agent list that holds a window outside 1..3600 is accepted.
C11_WindowInRange ==
    /\ Watching =>
          \A j \in DOMAIN watchers : InWindowRange(Window(watchers[j].settings))
    /\ Accepted =>
          \A k \in DOMAIN agents :
              InWindowRange(Window(agents[k].watcher.settings))

\* the entry of the call of process_file that is last in tr
LastEntry(tr) == tr[Len(tr)]

\* a step that is a call of process_file, up to the put-object request
CallsProcessFile == pc = "agent" /\ Len(trace') = Len(trace) + 1

\* a step in which the put-object request of the current call returns
PutReturns == pc = "put" /\ trace' # trace

\* C12: single-shot upload.  A call of process_file that reaches the
\* upload issues at most one put-object request: exactly one if the agent
\* has a bucket and the file can be opened, none if the file cannot be
\* opened, and then the upload fails; when the request is rejected the call
\* fails with that one request and no agent is called twice for an event.
C12_SingleShotUpload ==
    [][ /\ \A i \in DOMAIN trace' :
              /\ trace'[i].put <= 1
              /\ \A j \in DOMAIN trace' :
                    trace'[j].agent = trace'[i].agent => i = j
        /\ CallsProcessFile =>
              LET e == LastEntry(trace')
                  agent == agents[agentIdx]
              IN  (UploadAttempted(e) /\ agent.bucket_name # None) =>
                      IF Exists(fs, event.path)
                      THEN e.put = 1 /\ e.upload = "sent"
                      ELSE e.put = 0 /\ e.upload = "unavailable"
                           /\ e.result = "Err"
        /\ PutReturns =>
              /\ LastEntry(trace').put = LastEntry(trace).put
              /\ LastEntry(trace').upload = "rejected" =>
                    (LastEntry(trace').result = "Err" /\ pc' = "failed")
      ]_vars

\* a request was rejected: the call has failed with one request sent
C12_Witness ==
    /\ trace # <<>>
    /\ LastEntry(trace).upload = "rejected"
    /\ LastEntry(trace).put = 1
    /\ pc = "failed"

\* the pattern the agent applies does not match the path below its root
PatternMismatch(agent, path) ==
    /\ UnderRoot(path, agent.watcher.local_path)
    /\ ValidText(RelativePart(path, agent.watcher.local_path))
    /\ ~ IsMatch(UnwrapOr(agent.pattern, DotStar),
                 RelativeText(path, agent.watcher.local_path))

\* C13: skip paths are free of side effects.  A call of process_file that
\* ends in a skip (pattern mismatch, path outside the root) leaves the
\* agent list with every field of every agent, the watchers and their
\* settings and the files as they were, and in the state after it the same
\* event is a skip for the same agent again.
C13_SkipIsSideEffectFree ==
    [][ (CallsProcessFile /\ Skipped(LastEntry(trace'))) =>
            /\ agents' = agents
            /\ watchers' = watchers
            /\ fs' = fs
            /\ event' = event
            /\ ~ ObjectKey(agents'[agentIdx], event'.path).ok
      ]_vars

\* the second batch brought an event an agent's pattern does not match:
\* the call was skipped, the file is where it was
C13_Witness ==
    /\ sent = MaxSends
    /\ chan = <<>>
    /\ \E i \in DOMAIN trace :
          /\ PatternMismatch(EntryAgent(trace[i]), event.path)
          /\ EntryAgent(trace[i]).pattern # None
          /\ Skipped(trace[i])
    /\ fs[event.path] = "file"

\* the calls of process_file for the current event whose upload is in flight
InFlight == { i \in DOMAIN trace : trace[i].upload = "sent" }

\* the calls of process_file for the current event that have not returned
Active == { i \in DOMAIN trace : trace[i].result = "none" }

\* C14: sequential dispatch.  At most one call of process_file is active
\* and at most one upload is in flight, and it is the call of the agent the
\* loop is at; the agents are called in the order of the list, each after
\* every earlier one has returned with its upload and delete done; and no
\* call is active when main takes the next event or the next batch.
C14_SequentialDispatch ==
    /\ Cardinality(Active) <= 1
    /\ Cardinality(InFlight) <= 1
    /\ \A i \in DOMAIN trace : trace[i].agent = i
    /\ \A i \in Active \cup InFlight :
          i = Len(trace) /\ agentIdx = i /\ pc = "put"
    /\ pc = "agent" => Len(trace) = agentIdx - 1
    /\ pc \in {"recv", "event", "failed"} => Active = {}

\* the second agent's upload is in flight after the first agent's upload
\* has returned, while another event of the batch waits
C14_Witness ==
    /\ Len(trace) = MaxAgents
    /\ InFlight = {MaxAgents}
    /\ \A i \in 1..(MaxAgents - 1) : trace[i].upload = "ok"
    /\ events # <<>>

\* the channel q without its k-th item
Without(q, k) == SubSeq(q, 1, k - 1) \o SubSeq(q, k + 1, Len(q))

\* a step in which main takes an item from the channel
TakesItem == Len(chan') = Len(chan) - 1

\* C15: dispatch order follows delivery order.  The item main takes from
\* the channel is older than every item of the same watch still in it, so
\* two batches of one watch are dispatched in the order sent, whatever
\* the items of other watches do; an item is taken only when every event
\* of the batch before it has been dispatched, so no batch is split; and
\* the events of a batch are dispatched from its head on, in its order.
C15_DispatchFollowsDelivery ==
    [][ /\ TakesItem =>
              /\ events = <<>>
              /\ \E k \in DOMAIN chan :
                    /\ chan' = Without(chan, k)
                    /\ chan[k].res.ok => events' = chan[k].res.val
                    /\ \A j \in DOMAIN chan \ {k} :
                          chan[j].watch = chan[k].watch =>
                              chan[j].seq > chan[k].seq
        /\ (events' # events /\ ~ TakesItem) =>
              /\ events # <<>>
              /\ event' = Head(events)
              /\ events' = Tail(events)
      ]_vars

\* the first batch of the watch of /d is being dispatched, one event of it
\* taken and one to come, while a second batch of the same watch waits
C15_Witness ==
    /\ sent >= 2
    /\ pc = "event"
    /\ event # NoEvent
    /\ Len(events) = 1
    /\ chan # <<>>
    /\ chan[1].seq = 2
    /\ chan[1].res.ok
    /\ watchers[chan[1].watch].local_path = RootD

MatchesBelowRoot(agent, path) ==
    /\ UnderRoot(path, agent.watcher.local_path)
    /\ Len(RelativePart(path, agent.watcher.local_path)) > 1
    /\ ValidText(RelativePart(path, agent.watcher.local_path))
    /\ IsMatch(UnwrapOr(agent.pattern, DotStar),
               RelativeText(path, agent.watcher.local_path))

\* C17: the recursion flag of the agent itself is not consulted in the
\* dispatch.  An agent that is not recursive, called for a file of a
\* subdirectory of its root that its pattern matches, derives a key and
\* goes on to the upload like for a file of the root itself, and after a
\* successful upload deletes the file if its delete flag is set.
C17_OwnRecursionNotConsulted ==
    \A i \in DOMAIN trace :
        LET e == trace[i]
            agent == EntryAgent(e)
        IN  (~ Recursive(agent.watcher.settings)
                /\ MatchesBelowRoot(agent, event.path)) =>
                /\ e.key # None
                /\ UploadAttempted(e)
                /\ (agent.bucket_name # None /\ e.upload # "unavailable") =>
                      e.put = 1
                /\ (e.upload = "ok" /\ DeleteRequested(agent)) =>
                      e.delete \in {"ok", "failed"}
                /\ e.delete = "ok" => fs[event.path] = "missing"

\* an agent that is not recursive shares the root /d with a recursive one:
\* the merged watch is recursive, and the agent has uploaded and deleted
\* /d/s/g.t
C17_Witness ==
    /\ \E j \in DOMAIN watchers :
          /\ watchers[j].local_path = RootD
          /\ Recursive(watchers[j].settings)
    /\ \E k \in DOMAIN agents :
          /\ agents[k].watcher.local_path = RootD
          /\ Recursive(agents[k].watcher.settings)
    /\ \E i \in DOMAIN trace :
          /\ EntryRoot(trace[i]) = RootD
          /\ ~ Recursive(EntryAgent(trace[i]).watcher.settings)
          /\ event.path = PathSubG
          /\ trace[i].upload = "ok"
          /\ trace[i].delete = "ok"
    /\ fs[PathSubG] = "missing"

\* the event matches the agent: the path is under its root, the part below
\* the root is text and the pattern matches it
MatchesAgent(agent, path) ==
    /\ UnderRoot(path, agent.watcher.local_path)
    /\ ValidText(RelativePart(path, agent.watcher.local_path))
    /\ IsMatch(UnwrapOr(agent.pattern, DotStar),
               RelativeText(path, agent.watcher.local_path))

\* C18: an agent with no bucket never uploads or deletes.  A call of
\* process_file of such an agent for an event that matches it fails with
\* "Bucket name is required", whether or not the file is still there: no
\* put-object request is issued, no delete is tried, the files are left as
\* they are, and the error is returned from process_event.
C18_NoBucketNoUpload ==
    [][ (CallsProcessFile /\ agents[agentIdx].bucket_name = None
            /\ MatchesAgent(agents[agentIdx], event.path)) =>
            /\ LastEntry(trace').key # None
            /\ LastEntry(trace').upload = "no bucket"
            /\ LastEntry(trace').put = 0
            /\ LastEntry(trace').delete = "none"
            /\ LastEntry(trace').result = "Err"
            /\ fs' = fs
            /\ ret' = "Err"
            /\ pc' = "failed"
      ]_vars

\* an agent with the delete flag set and no bucket was called for a file
\* that matches it: the call failed and the file is still there
C18_Witness ==
    /\ trace # <<>>
    /\ EntryAgent(LastEntry(trace)).bucket_name = None
    /\ DeleteRequested(EntryAgent(LastEntry(trace)))
    /\ MatchesAgent(EntryAgent(LastEntry(trace)), event.path)
    /\ LastEntry(trace).upload = "no bucket"
    /\ fs[event.path] = "file"
    /\ ret = "Err"

\* C19: error items are dropped by the dispatch loop.  When the item main
\* takes from the channel is an Err, no agent is called and no event is
\* dispatched for it, main does not return, and the loop stays at the
\* channel, where it takes the items that follow.
C19_ErrorItemsDropped ==
    [][ (TakesItem /\ ~ Head(chan).res.ok) =>
            /\ chan' = Tail(chan)
            /\ pc = "recv"
            /\ pc' = "recv"
            /\ events' = events
            /\ event' = event
            /\ trace' = trace
            /\ agentIdx' = agentIdx
            /\ ret' = ret
            /\ fs' = fs
      ]_vars

\* two items were sent and both are taken, and the batch now to be
\* dispatched is the first batch main ever took: the item before it was an
\* error, and the loop went on past it
C19_Witness ==
    /\ sent = 2
    /\ chan = <<>>
    /\ pc = "event"
    /\ events # <<>>
    /\ event = NoEvent
    /\ ret = "none"

=============================================================================
